---- MODULE Spec2Model ----
(***************************************************************************)
(* pico-sync: a hardware-spinlock-backed mutex (src/src/mutex.rs), per-core *)
(* ownership tokens and the one-time-initialised LocalCell                  *)
(* (src/src/cores.rs) for the two cores of an RP2040 / RP235x.              *)
(*                                                                          *)
(* Spec      the mutex, its guards and the hardware spinlock register       *)
(* SpecOwn   mutexes being made and consumed                                *)
(* SpecCall  the closure-taking calls of the mutex                          *)
(* SpecTok   the core ownership tokens                                      *)
(* SpecCell  LocalCell                                                      *)
(* SpecUninit  mutexes over MaybeUninit<T> and the promotion of guards      *)
(* SpecOnce  LocalCell in the guarded build, tokens from try_claim() only   *)
(* SpecIsr   the interrupt tokens (src/src/isr_guard.rs)                    *)
(* SpecLive  lock_blocking() under fair scheduling of the spinning contexts *)
(***************************************************************************)
EXTENDS Integers, FiniteSets, TLC

VARIABLES
    lock,       \* hardware spinlock register: lock[n] is TRUE while lock n is claimed
    data,       \* data[m]: the UnsafeCell<T> payload of mutex m (st = "none": no such value)
    guard,      \* guard[c][m]: live RefMut values of context c borrowing mutex m
    handle,     \* handle[c][n]: bare Spinlock<n> handles context c owns
    fresh,      \* history: fresh[m] records the value given to new() until m is first locked
    dropped,    \* history: dropped[n] is TRUE iff lock n was last freed by a guard going away
    pc,         \* pc[c]: where context c is inside a call that takes more than one step
    ret,        \* what the operation that returned last gave back, and to whom
    irqActive,  \* TRUE while the interrupt handler runs on core 0 (thread mode preempted)
    guarded,    \* build: feature "single-core-guard-access"
    debug,      \* build: debug assertions enabled
    flag,       \* flag[k]: IS_CORE<k>_TAKEN
    tokens,     \* tokens[c][k]: Core<k>Token values context c owns
    cell,       \* cell[k]: the OnceCell of a LocalCell<T, Core<k>Token>
    invoked,    \* history: the initializers that have been run
    assumed,    \* assumed[c][m]: live RefMut<T> values of c made by assume_init on mutex m
    isrTokens   \* isrTokens[c][i]: tokens of interrupt line i that context c owns

vars == <<lock, data, guard, handle, fresh, dropped, pc, ret, irqActive,
          guarded, debug, flag, tokens, cell, invoked, assumed, isrTokens>>

mutexVars == <<lock, data, guard, handle, fresh, dropped, assumed>>
coreVars == <<flag, tokens, cell, invoked>>
buildVars == <<guarded, debug>>

(***************************************************************************)
(* Bounds                                                                   *)
(***************************************************************************)
\* payload and result values are 0..MaxVal
MaxVal == 1

\* at most MaxTokens tokens of one core, or of one interrupt line, are live at a time
MaxTokens == 2

\* the initializers handed to get_or_init are 1..MaxInit; initializer i yields i
MaxInit == 2

Val == 0..MaxVal

Inits == 1..MaxInit

\* the cores, as CoreId
Cores == {0, 1}

\* two of the interrupt lines that interrupt_impl! makes a token type for
Irqs == {"TIMER_IRQ_0", "TIMER_IRQ_1"}

(***************************************************************************)
(* Execution contexts: thread mode of each core and one interrupt handler   *)
(* that preempts core 0.                                                    *)
(***************************************************************************)
Ctx == {"core0", "core1", "irq0"}

\* Sio::core() as read by context c
Sio_core(c) == IF c = "core1" THEN 1 ELSE 0

\* c is the context its core is executing
Running(c) ==
    /\ pc[c].at # "panicked"
    /\ \/ c = "core1"
       \/ c = "core0" /\ ~irqActive
       \/ c = "irq0" /\ irqActive /\ pc["core0"].at # "panicked"

(***************************************************************************)
(* Mutexes: A and B are both SpinlockMutex<T, 0>, C is SpinlockMutex<T, 1>. *)
(***************************************************************************)
Mtx == {"A", "B", "C"}

LockIds == {0, 1}

\* a binding under which mutex B has a lock apart from A's
N_apart(m) == IF m = "A" THEN 0 ELSE 1

\* the const generic N of mutex m
N(m) == IF m = "C" THEN 1 ELSE 0

NoData == [st |-> "none", v |-> 0]

\* a OnceCell without a value
Empty == [v |-> 0, core |-> 0]

Init_data(v) == [st |-> "init", v |-> v]

Idle == [at |-> "idle", m |-> "none", k |-> 0, r |-> 0, calls |-> 0]

\* context c is inside call `at` on mutex m
InCall(at, m) == [at |-> at, m |-> m, k |-> 0, r |-> 0, calls |-> 0]

At(c, at) == pc[c].at = at

Returned(c, op, m, tag, v) ==
    [ctx |-> c, op |-> op, m |-> m, tag |-> tag, v |-> v, arg |-> 0]

\* number of live guards for lock id n, over all contexts and mutexes
RECURSIVE SumGuards(_, _)
SumGuards(S, n) ==
    IF S = {} THEN 0
    ELSE LET p == CHOOSE q \in S : TRUE
         IN (IF N(p[2]) = n THEN guard[p[1]][p[2]] ELSE 0) + SumGuards(S \ {p}, n)

Guards(n) == SumGuards(Ctx \X Mtx, n)

RECURSIVE SumHandles(_, _)
SumHandles(S, n) ==
    IF S = {} THEN 0
    ELSE LET c == CHOOSE q \in S : TRUE
         IN handle[c][n] + SumHandles(S \ {c}, n)

Handles(n) == SumHandles(Ctx, n)

\* number of live Core<k>Token values, over all contexts
RECURSIVE SumTokens(_, _)
SumTokens(S, k) ==
    IF S = {} THEN 0
    ELSE LET c == CHOOSE q \in S : TRUE
         IN tokens[c][k] + SumTokens(S \ {c}, k)

Tokens(k) == SumTokens(Ctx, k)

\* mutex m is borrowed: a guard refers to it or a call on it is in progress
Borrowed(m) ==
    \/ \E c \in Ctx : guard[c][m] > 0 \/ assumed[c][m] > 0
    \/ \E c \in Ctx : pc[c].m = m

(***************************************************************************)
(* The hardware lock interface (hal::sio::Spinlock<N>)                      *)
(***************************************************************************)
\* Spinlock::<n>::try_claim(): reading the register claims the lock iff it is free
Spinlock_try_claim(n) == ~lock[n]

\* the register after a successful claim of n
Claimed(n) == [lock EXCEPT ![n] = TRUE]

\* Drop for Spinlock<n>: writing the register frees the lock
Released(n) == [lock EXCEPT ![n] = FALSE]

(***************************************************************************)
(* Interrupt entry and return on core 0                                     *)
(***************************************************************************)
IrqEnter ==
    /\ ~irqActive
    /\ pc["core0"].at # "panicked"
    /\ irqActive' = TRUE
    /\ UNCHANGED <<mutexVars, coreVars, isrTokens, buildVars, pc, ret>>

\* the handler returns: its locals (guards, handles, tokens) are gone by then
IrqReturn ==
    /\ irqActive
    /\ At("irq0", "idle")
    /\ \A m \in Mtx : guard["irq0"][m] = 0 /\ assumed["irq0"][m] = 0
    /\ \A n \in LockIds : handle["irq0"][n] = 0
    /\ irqActive' = FALSE
    /\ tokens' = [tokens EXCEPT !["irq0"] = [k \in Cores |-> 0]]
    /\ isrTokens' = [isrTokens EXCEPT !["irq0"] = [i \in Irqs |-> 0]]
    /\ UNCHANGED <<mutexVars, flag, cell, invoked, buildVars, pc, ret>>

(***************************************************************************)
(* SpinlockMutex<T, N>                                                      *)
(***************************************************************************)
\* new as its doc comment words it ("Create a new (locked) spinlock"): claiming lock N
new_locked(c, m, v) ==
    /\ Running(c) /\ At(c, "idle")
    /\ data[m].st = "none"
    /\ ~Borrowed(m)
    /\ data' = [data EXCEPT ![m] = Init_data(v)]
    /\ fresh' = [fresh EXCEPT ![m] = [st |-> "new", v |-> v]]
    /\ lock' = Claimed(N(m))
    /\ ret' = Returned(c, "new", m, "Unit", 0)
    /\ UNCHANGED <<guard, handle, dropped, pc, irqActive, assumed, coreVars, isrTokens, buildVars>>

\* SpinlockMutex::new(data)
new(c, m, v) ==
    /\ Running(c) /\ At(c, "idle")
    /\ data[m].st = "none"
    /\ ~Borrowed(m)
    /\ data' = [data EXCEPT ![m] = Init_data(v)]
    /\ fresh' = [fresh EXCEPT ![m] = [st |-> "new", v |-> v]]
    /\ ret' = Returned(c, "new", m, "Unit", 0)
    /\ UNCHANGED <<lock, guard, handle, dropped, pc, irqActive, assumed, coreVars, isrTokens, buildVars>>

\* SpinlockMutex::into_inner(self): the caller owns the mutex, so nothing borrows it
into_inner(c, m) ==
    /\ Running(c) /\ At(c, "idle")
    /\ data[m].st = "init"
    /\ ~Borrowed(m)
    /\ ret' = Returned(c, "into_inner", m, "Val", data[m].v)
    /\ data' = [data EXCEPT ![m] = NoData]
    /\ UNCHANGED <<lock, guard, handle, fresh, dropped, pc, irqActive, assumed, coreVars, isrTokens, buildVars>>

\* RefMut::new(&mut *self.data.get(), lock): one more live guard of c on m
RefMut_new(c, m) == [guard EXCEPT ![c][m] = @ + 1]

\* history: m has been locked
Used(m) == [fresh EXCEPT ![m] = [st |-> "used", v |-> 0]]

\* a bare handle taken straight from the hardware: Spinlock::<n>::try_claim()
Spinlock_claim(c, n) ==
    /\ Running(c) /\ At(c, "idle")
    /\ Spinlock_try_claim(n)
    /\ lock' = Claimed(n)
    /\ handle' = [handle EXCEPT ![c][n] = @ + 1]
    /\ ret' = Returned(c, "Spinlock_claim", "none", "Some", n)
    /\ UNCHANGED <<data, guard, fresh, dropped, pc, irqActive, assumed, coreVars, isrTokens, buildVars>>

\* a bare handle goes out of scope
Spinlock_drop(c, n) ==
    /\ Running(c) /\ At(c, "idle")
    /\ handle[c][n] > 0
    /\ handle' = [handle EXCEPT ![c][n] = @ - 1]
    /\ lock' = Released(n)
    /\ dropped' = [dropped EXCEPT ![n] = FALSE]
    /\ ret' = Returned(c, "Spinlock_drop", "none", "Unit", n)
    /\ UNCHANGED <<data, guard, fresh, pc, irqActive, assumed, coreVars, isrTokens, buildVars>>

\* lock_with as it would be if the handle were copied instead of moved into the guard
lock_with_keep(c, m) ==
    /\ Running(c) /\ At(c, "idle")
    /\ data[m].st # "none"
    /\ handle[c][N(m)] > 0
    /\ guard' = RefMut_new(c, m)
    /\ fresh' = Used(m)
    /\ ret' = Returned(c, "lock_with", m, "Guard", 0)
    /\ UNCHANGED <<lock, data, handle, dropped, pc, irqActive, assumed, coreVars, isrTokens, buildVars>>

\* SpinlockMutex::lock_with(&self, lock): the handle moves into the guard
lock_with(c, m) ==
    /\ Running(c) /\ At(c, "idle")
    /\ data[m].st # "none"
    /\ handle[c][N(m)] > 0
    /\ handle' = [handle EXCEPT ![c][N(m)] = @ - 1]
    /\ guard' = RefMut_new(c, m)
    /\ fresh' = Used(m)
    /\ ret' = Returned(c, "lock_with", m, "Guard", 0)
    /\ UNCHANGED <<lock, data, dropped, pc, irqActive, assumed, coreVars, isrTokens, buildVars>>

\* try_lock as it would be if it wrapped the payload without asking the register
try_lock_unchecked(c, m) ==
    /\ Running(c) /\ At(c, "idle")
    /\ data[m].st # "none"
    /\ lock' = Claimed(N(m))
    /\ guard' = RefMut_new(c, m)
    /\ fresh' = Used(m)
    /\ ret' = Returned(c, "try_lock", m, "Some", 0)
    /\ UNCHANGED <<data, handle, dropped, pc, irqActive, assumed, coreVars, isrTokens, buildVars>>

\* SpinlockMutex::try_lock(&self): Spinlock::try_claim().map(|l| self.lock_with(l))
try_lock(c, m) ==
    /\ Running(c) /\ At(c, "idle")
    /\ data[m].st # "none"
    /\ IF Spinlock_try_claim(N(m))
       THEN /\ lock' = Claimed(N(m))
            /\ guard' = RefMut_new(c, m)
            /\ fresh' = Used(m)
            /\ ret' = Returned(c, "try_lock", m, "Some", 0)
       ELSE /\ ret' = Returned(c, "try_lock", m, "None", 0)
            /\ UNCHANGED <<lock, guard, fresh>>
    /\ UNCHANGED <<data, handle, dropped, pc, irqActive, assumed, coreVars, isrTokens, buildVars>>

\* SpinlockMutex::lock_blocking(&self) is entered: Spinlock::claim() starts to spin
lock_blocking(c, m) ==
    /\ Running(c) /\ At(c, "idle")
    /\ data[m].st # "none"
    /\ pc' = [pc EXCEPT ![c] = InCall("lock_blocking", m)]
    /\ UNCHANGED <<mutexVars, ret, irqActive, coreVars, isrTokens, buildVars>>

\* a lock_blocking whose spinning contexts give way to each other: a context
\* claims the free lock only if no other context spins for it
lock_blocking_claim_polite(c) ==
    /\ Running(c) /\ At(c, "lock_blocking")
    /\ Spinlock_try_claim(N(pc[c].m))
    /\ \A c2 \in Ctx \ {c} : ~(At(c2, "lock_blocking") /\ N(pc[c2].m) = N(pc[c].m))
    /\ lock' = Claimed(N(pc[c].m))
    /\ guard' = RefMut_new(c, pc[c].m)
    /\ fresh' = Used(pc[c].m)
    /\ ret' = Returned(c, "lock_blocking", pc[c].m, "Guard", 0)
    /\ pc' = [pc EXCEPT ![c] = Idle]
    /\ UNCHANGED <<data, handle, dropped, irqActive, assumed, coreVars, isrTokens, buildVars>>

\* a lock_blocking that lets the holder of lock N in again (a reentrant lock)
lock_blocking_claim_reentrant(c) ==
    /\ Running(c) /\ At(c, "lock_blocking")
    /\ \/ Spinlock_try_claim(N(pc[c].m))
       \/ \E m \in Mtx : N(m) = N(pc[c].m) /\ guard[c][m] > 0
       \/ handle[c][N(pc[c].m)] > 0
    /\ lock' = Claimed(N(pc[c].m))
    /\ guard' = RefMut_new(c, pc[c].m)
    /\ fresh' = Used(pc[c].m)
    /\ ret' = Returned(c, "lock_blocking", pc[c].m, "Guard", 0)
    /\ pc' = [pc EXCEPT ![c] = Idle]
    /\ UNCHANGED <<data, handle, dropped, irqActive, assumed, coreVars, isrTokens, buildVars>>

\* Spinlock::claim() finds the lock free; lock_blocking returns the guard
lock_blocking_claim(c) ==
    /\ Running(c) /\ At(c, "lock_blocking")
    /\ Spinlock_try_claim(N(pc[c].m))
    /\ lock' = Claimed(N(pc[c].m))
    /\ guard' = RefMut_new(c, pc[c].m)
    /\ fresh' = Used(pc[c].m)
    /\ ret' = Returned(c, "lock_blocking", pc[c].m, "Guard", 0)
    /\ pc' = [pc EXCEPT ![c] = Idle]
    /\ UNCHANGED <<data, handle, dropped, irqActive, assumed, coreVars, isrTokens, buildVars>>

\* DerefMut for RefMut: the holder of a guard writes the payload
RefMut_deref_mut(c, m, v) ==
    /\ Running(c) /\ At(c, "idle")
    /\ guard[c][m] > 0
    /\ data[m].st = "init"
    /\ data[m].v # v
    /\ data' = [data EXCEPT ![m] = Init_data(v)]
    /\ ret' = Returned(c, "deref_mut", m, "Unit", v)
    /\ UNCHANGED <<lock, guard, handle, fresh, dropped, pc, irqActive, assumed, coreVars, isrTokens, buildVars>>

\* a guard whose going away leaves the hardware lock claimed
RefMut_drop_leak(c, m) ==
    /\ Running(c) /\ At(c, "idle")
    /\ guard[c][m] > 0
    /\ guard' = [guard EXCEPT ![c][m] = @ - 1]
    /\ dropped' = [dropped EXCEPT ![N(m)] = TRUE]
    /\ ret' = Returned(c, "drop", m, "Unit", 0)
    /\ UNCHANGED <<lock, data, handle, fresh, pc, irqActive, assumed, coreVars, isrTokens, buildVars>>

\* a RefMut goes out of scope: its Spinlock<N> field is dropped, which frees lock N
RefMut_drop(c, m) ==
    /\ Running(c) /\ At(c, "idle")
    /\ guard[c][m] > 0
    /\ guard' = [guard EXCEPT ![c][m] = @ - 1]
    /\ lock' = Released(N(m))
    /\ dropped' = [dropped EXCEPT ![N(m)] = TRUE]
    /\ ret' = Returned(c, "drop", m, "Unit", 0)
    /\ UNCHANGED <<data, handle, fresh, pc, irqActive, assumed, coreVars, isrTokens, buildVars>>

\* SpinlockMutex::call_with_lock_blocking(&self, f) is entered: lock_blocking() spins
call_with_lock_blocking(c, m) ==
    /\ Running(c) /\ At(c, "idle")
    /\ data[m].st = "init"
    /\ pc' = [pc EXCEPT ![c] = InCall("cwlb_lock", m)]
    /\ UNCHANGED <<mutexVars, ret, irqActive, coreVars, isrTokens, buildVars>>

\* let mut l = self.lock_blocking();
cwlb_lock(c) ==
    /\ Running(c) /\ At(c, "cwlb_lock")
    /\ Spinlock_try_claim(N(pc[c].m))
    /\ lock' = Claimed(N(pc[c].m))
    /\ guard' = RefMut_new(c, pc[c].m)
    /\ fresh' = Used(pc[c].m)
    /\ pc' = [pc EXCEPT ![c].at = "cwlb_f"]
    /\ UNCHANGED <<data, handle, dropped, ret, irqActive, assumed, coreVars, isrTokens, buildVars>>

\* f(l.as_mut()): f is invoked on the payload; it may write w to it and yields r
call_f(c, from, to, w, r) ==
    /\ Running(c) /\ At(c, from)
    /\ data' = [data EXCEPT ![pc[c].m] = Init_data(w)]
    /\ pc' = [pc EXCEPT ![c].at = to, ![c].r = r, ![c].calls = @ + 1]
    /\ UNCHANGED <<lock, guard, handle, fresh, dropped, ret, irqActive, assumed, coreVars, isrTokens, buildVars>>

\* a return that hands the result back but leaves lock N claimed
call_ret_locked(c, at, op, tag) ==
    /\ Running(c) /\ At(c, at)
    /\ guard' = [guard EXCEPT ![c][pc[c].m] = @ - 1]
    /\ ret' = Returned(c, op, pc[c].m, tag, pc[c].r)
    /\ pc' = [pc EXCEPT ![c] = Idle]
    /\ UNCHANGED <<lock, data, handle, fresh, dropped, irqActive, assumed, coreVars, isrTokens, buildVars>>

\* the function returns: l goes out of scope, which frees lock N; the result is handed back
call_ret(c, at, op, tag) ==
    /\ Running(c) /\ At(c, at)
    /\ guard' = [guard EXCEPT ![c][pc[c].m] = @ - 1]
    /\ lock' = Released(N(pc[c].m))
    /\ dropped' = [dropped EXCEPT ![N(pc[c].m)] = TRUE]
    /\ ret' = Returned(c, op, pc[c].m, tag, pc[c].r)
    /\ pc' = [pc EXCEPT ![c] = Idle]
    /\ UNCHANGED <<data, handle, fresh, irqActive, assumed, coreVars, isrTokens, buildVars>>

\* f(l.as_mut())
cwlb_f(c, w, r) == call_f(c, "cwlb_f", "cwlb_ret", w, r)

\* call_with_lock_blocking returns f's result
cwlb_ret(c) == call_ret(c, "cwlb_ret", "call_with_lock_blocking", "Val")

\* SpinlockMutex::try_call_with_lock(&self, f): let mut l = self.try_lock()?;
try_call_with_lock(c, m) ==
    /\ Running(c) /\ At(c, "idle")
    /\ data[m].st = "init"
    /\ IF Spinlock_try_claim(N(m))
       THEN /\ lock' = Claimed(N(m))
            /\ guard' = RefMut_new(c, m)
            /\ fresh' = Used(m)
            /\ pc' = [pc EXCEPT ![c] = InCall("tcwl_f", m)]
            /\ UNCHANGED ret
       ELSE /\ ret' = Returned(c, "try_call_with_lock", m, "None", 0)
            /\ UNCHANGED <<lock, guard, fresh, pc>>
    /\ UNCHANGED <<data, handle, dropped, irqActive, assumed, coreVars, isrTokens, buildVars>>

\* let r = f(l.as_mut());
tcwl_f(c, w, r) == call_f(c, "tcwl_f", "tcwl_ret", w, r)

\* Some(r)
tcwl_ret(c) == call_ret(c, "tcwl_ret", "try_call_with_lock", "Some")

(***************************************************************************)
(* SpinlockMutex<MaybeUninit<T>, N> and the promotion of its guards         *)
(***************************************************************************)
\* UnsafeCell::new(MaybeUninit::uninit()): storage that was never written
Uninit_data == [st |-> "uninit", v |-> 0]

\* SpinlockMutex::uninit()
uninit(c, m) ==
    /\ Running(c) /\ At(c, "idle")
    /\ data[m].st = "none"
    /\ ~Borrowed(m)
    /\ data' = [data EXCEPT ![m] = Uninit_data]
    /\ fresh' = [fresh EXCEPT ![m] = Uninit_data]
    /\ ret' = Returned(c, "uninit", m, "Unit", 0)
    /\ UNCHANGED <<lock, guard, handle, dropped, pc, irqActive, assumed, coreVars, isrTokens, buildVars>>

\* DerefMut for RefMut: the holder of a guard over MaybeUninit<T> writes v into the
\* storage (MaybeUninit::write), and so does the holder of a promoted guard (*g = v)
RefMut_write(c, m, v) ==
    /\ Running(c) /\ At(c, "idle")
    /\ guard[c][m] > 0 \/ assumed[c][m] > 0
    /\ data[m].st # "none"
    /\ data[m] # Init_data(v)
    /\ data' = [data EXCEPT ![m] = Init_data(v)]
    /\ ret' = Returned(c, "write", m, "Unit", v)
    /\ UNCHANGED <<lock, guard, handle, fresh, dropped, pc, irqActive, assumed, coreVars, isrTokens, buildVars>>

\* Deref for RefMut<T>: the holder of a promoted guard reads the payload. Reading
\* storage that was never written is undefined: any value u may come back.
RefMut_deref(c, m, u) ==
    /\ Running(c) /\ At(c, "idle")
    /\ assumed[c][m] > 0
    /\ data[m].st # "none"
    /\ ret' = Returned(c, "deref", m, "Val", IF data[m].st = "init" THEN data[m].v ELSE u)
    /\ UNCHANGED <<mutexVars, pc, irqActive, coreVars, isrTokens, buildVars>>

\* RefMut::<MaybeUninit<T>>::assume_init(self): the handle and the reference move into
\* a RefMut<T>; one guard over MaybeUninit<T> becomes one promoted guard
Promoted(c, m) == [assumed EXCEPT ![c][m] = @ + 1]

\* unsafe RefMut::assume_init(self), called on a guard the caller holds
RefMut_assume_init(c, m) ==
    /\ Running(c) /\ At(c, "idle")
    /\ guard[c][m] > 0
    /\ guard' = [guard EXCEPT ![c][m] = @ - 1]
    /\ assumed' = Promoted(c, m)
    /\ ret' = Returned(c, "assume_init", m, "Guard", 0)
    /\ UNCHANGED <<lock, data, handle, fresh, dropped, pc, irqActive, coreVars, isrTokens, buildVars>>

\* a promotion that frees lock N with the old guard and hands out the new guard bare
assume_init_ret_unlock(c, at, op, tag) ==
    /\ Running(c) /\ At(c, at)
    /\ guard' = [guard EXCEPT ![c][pc[c].m] = @ - 1]
    /\ assumed' = Promoted(c, pc[c].m)
    /\ lock' = Released(N(pc[c].m))
    /\ ret' = Returned(c, op, pc[c].m, tag, 0)
    /\ pc' = [pc EXCEPT ![c] = Idle]
    /\ UNCHANGED <<data, handle, fresh, dropped, irqActive, coreVars, isrTokens, buildVars>>

\* unsafe { l.assume_init() } as the last statement of a wrapper: the guard the wrapper
\* has just made is promoted and returned
assume_init_ret(c, at, op, tag) ==
    /\ Running(c) /\ At(c, at)
    /\ guard' = [guard EXCEPT ![c][pc[c].m] = @ - 1]
    /\ assumed' = Promoted(c, pc[c].m)
    /\ ret' = Returned(c, op, pc[c].m, tag, 0)
    /\ pc' = [pc EXCEPT ![c] = Idle]
    /\ UNCHANGED <<lock, data, handle, fresh, dropped, irqActive, coreVars, isrTokens, buildVars>>

\* try_assume_init_lock as it would be if it made the storage anew before promoting
try_assume_init_lock_reset(c, m) ==
    /\ Running(c) /\ At(c, "idle")
    /\ data[m].st # "none"
    /\ IF Spinlock_try_claim(N(m))
       THEN /\ lock' = Claimed(N(m))
            /\ guard' = RefMut_new(c, m)
            /\ fresh' = Used(m)
            /\ data' = [data EXCEPT ![m] = Uninit_data]
            /\ pc' = [pc EXCEPT ![c] = InCall("tail_assume", m)]
            /\ UNCHANGED ret
       ELSE /\ ret' = Returned(c, "try_assume_init_lock", m, "None", 0)
            /\ UNCHANGED <<lock, guard, fresh, pc, data>>
    /\ UNCHANGED <<handle, dropped, irqActive, assumed, coreVars, isrTokens, buildVars>>

\* unsafe SpinlockMutex::try_assume_init_lock(&self): self.try_lock() ...
try_assume_init_lock(c, m) ==
    /\ Running(c) /\ At(c, "idle")
    /\ data[m].st # "none"
    /\ IF Spinlock_try_claim(N(m))
       THEN /\ lock' = Claimed(N(m))
            /\ guard' = RefMut_new(c, m)
            /\ fresh' = Used(m)
            /\ pc' = [pc EXCEPT ![c] = InCall("tail_assume", m)]
            /\ UNCHANGED ret
       ELSE /\ ret' = Returned(c, "try_assume_init_lock", m, "None", 0)
            /\ UNCHANGED <<lock, guard, fresh, pc>>
    /\ UNCHANGED <<data, handle, dropped, irqActive, assumed, coreVars, isrTokens, buildVars>>

\* ... .map(|r| unsafe { r.assume_init() })
tail_assume(c) == assume_init_ret(c, "tail_assume", "try_assume_init_lock", "Some")

\* unsafe SpinlockMutex::assume_init_lock_blocking(&self) is entered: lock_blocking() spins
assume_init_lock_blocking(c, m) ==
    /\ Running(c) /\ At(c, "idle")
    /\ data[m].st # "none"
    /\ pc' = [pc EXCEPT ![c] = InCall("ailb_lock", m)]
    /\ UNCHANGED <<mutexVars, ret, irqActive, coreVars, isrTokens, buildVars>>

\* let l = self.lock_blocking();
ailb_lock(c) ==
    /\ Running(c) /\ At(c, "ailb_lock")
    /\ Spinlock_try_claim(N(pc[c].m))
    /\ lock' = Claimed(N(pc[c].m))
    /\ guard' = RefMut_new(c, pc[c].m)
    /\ fresh' = Used(pc[c].m)
    /\ pc' = [pc EXCEPT ![c].at = "ailb_assume"]
    /\ UNCHANGED <<data, handle, dropped, ret, irqActive, assumed, coreVars, isrTokens, buildVars>>

\* unsafe { l.assume_init() }
ailb_assume(c) == assume_init_ret(c, "ailb_assume", "assume_init_lock_blocking", "Guard")

\* unsafe SpinlockMutex::assume_init_lock_with(&self, lock): let l = self.lock_with(lock);
assume_init_lock_with(c, m) ==
    /\ Running(c) /\ At(c, "idle")
    /\ data[m].st # "none"
    /\ handle[c][N(m)] > 0
    /\ handle' = [handle EXCEPT ![c][N(m)] = @ - 1]
    /\ guard' = RefMut_new(c, m)
    /\ fresh' = Used(m)
    /\ pc' = [pc EXCEPT ![c] = InCall("ailw_assume", m)]
    /\ UNCHANGED <<lock, data, dropped, ret, irqActive, assumed, coreVars, isrTokens, buildVars>>

\* unsafe { l.assume_init() }
ailw_assume(c) == assume_init_ret(c, "ailw_assume", "assume_init_lock_with", "Guard")

\* a promoted guard goes out of scope: its Spinlock<N> field is dropped, which frees lock N
RefMut_drop_assumed(c, m) ==
    /\ Running(c) /\ At(c, "idle")
    /\ assumed[c][m] > 0
    /\ assumed' = [assumed EXCEPT ![c][m] = @ - 1]
    /\ lock' = Released(N(m))
    /\ dropped' = [dropped EXCEPT ![N(m)] = TRUE]
    /\ ret' = Returned(c, "drop_assumed", m, "Unit", 0)
    /\ UNCHANGED <<data, guard, handle, fresh, pc, irqActive, coreVars, isrTokens, buildVars>>

(***************************************************************************)
(* Core ownership tokens (singlecore!, try_claim_inner, try_new_inner)      *)
(***************************************************************************)
Panicked == [at |-> "panicked", m |-> "none", k |-> 0, r |-> 0, calls |-> 0]

\* SingleCore::steal() for Core<k>Token, as the body of a claim by c that returns
\* Some(token) to operation op: debug_assert_eq!(Sio::core(), Self::ID), then the token
steal_inner(c, k, op) ==
    IF debug /\ Sio_core(c) # k
    THEN /\ pc' = [pc EXCEPT ![c] = Panicked]
         /\ UNCHANGED <<tokens, ret>>
    ELSE /\ Tokens(k) < MaxTokens
         /\ tokens' = [tokens EXCEPT ![c][k] = @ + 1]
         /\ ret' = Returned(c, op, "none", "Some", k)
         /\ UNCHANGED pc

\* a steal that marks the core as taken
steal_flagged(c, k) ==
    /\ Running(c) /\ At(c, "idle")
    /\ steal_inner(c, k, "steal")
    /\ flag' = [flag EXCEPT ![k] = TRUE]
    /\ UNCHANGED <<mutexVars, cell, invoked, irqActive, isrTokens, buildVars>>

\* steal as it would be without the debug assertion: a token for whoever asks
steal_unchecked(c, k) ==
    /\ Running(c) /\ At(c, "idle")
    /\ Tokens(k) < MaxTokens
    /\ tokens' = [tokens EXCEPT ![c][k] = @ + 1]
    /\ ret' = Returned(c, "steal", "none", "Some", k)
    /\ UNCHANGED <<mutexVars, flag, cell, invoked, pc, irqActive, isrTokens, buildVars>>

\* unsafe SingleCore::steal(), called by c for Core<k>Token
steal(c, k) ==
    /\ Running(c) /\ At(c, "idle")
    /\ steal_inner(c, k, "steal")
    /\ UNCHANGED <<mutexVars, flag, cell, invoked, irqActive, isrTokens, buildVars>>

\* Core<k>Token::try_claim() -> try_claim_inner(&IS_CORE<k>_TAKEN)
try_claim(c, k) ==
    /\ guarded
    /\ Running(c) /\ At(c, "idle")
    /\ IF ~flag[k]
       THEN /\ flag' = [flag EXCEPT ![k] = TRUE]
            /\ steal_inner(c, k, "try_claim")
       ELSE /\ ret' = Returned(c, "try_claim", "none", "None", k)
            /\ UNCHANGED <<flag, tokens, pc>>
    /\ UNCHANGED <<mutexVars, cell, invoked, irqActive, isrTokens, buildVars>>

\* try_new as it would be if it kept count: refusing once a token of the core is live
try_new_once(c, k) ==
    /\ ~guarded
    /\ Running(c) /\ At(c, "idle")
    /\ IF Sio_core(c) = k /\ Tokens(k) = 0
       THEN steal_inner(c, k, "try_new")
       ELSE /\ ret' = Returned(c, "try_new", "none", "None", k)
            /\ UNCHANGED <<tokens, pc>>
    /\ UNCHANGED <<mutexVars, flag, cell, invoked, irqActive, isrTokens, buildVars>>

\* Core<k>Token::try_new() -> try_new_inner()
try_new(c, k) ==
    /\ ~guarded
    /\ Running(c) /\ At(c, "idle")
    /\ IF Sio_core(c) = k
       THEN steal_inner(c, k, "try_new")
       ELSE /\ ret' = Returned(c, "try_new", "none", "None", k)
            /\ UNCHANGED <<tokens, pc>>
    /\ UNCHANGED <<mutexVars, flag, cell, invoked, irqActive, isrTokens, buildVars>>

\* a token goes out of scope (the tokens have no Drop: nothing else changes)
token_drop(c, k) ==
    /\ Running(c) /\ At(c, "idle")
    /\ tokens[c][k] > 0
    /\ tokens' = [tokens EXCEPT ![c][k] = @ - 1]
    /\ ret' = Returned(c, "token_drop", "none", "Unit", k)
    /\ UNCHANGED <<mutexVars, flag, cell, invoked, pc, irqActive, isrTokens, buildVars>>

(***************************************************************************)
(* LocalCell<T, Core<k>Token>: cell[k] is its OnceCell<T>                   *)
(***************************************************************************)
\* get_or_init as it would be if it called init without looking at the cell
get_or_init_always(c, k, i) ==
    /\ Running(c) /\ At(c, "idle")
    /\ tokens[c][k] > 0
    /\ pc' = [pc EXCEPT ![c] = [at |-> "goi_init", m |-> "none", k |-> k, r |-> i, calls |-> 0]]
    /\ invoked' = [invoked EXCEPT ![k] = @ \cup {i}]
    /\ UNCHANGED <<mutexVars, ret, flag, tokens, cell, irqActive, isrTokens, buildVars>>

\* LocalCell::get_or_init(&self, _ctx: &Core<k>Token, init) with initializer i:
\* OnceCell::get_or_init returns the value if there is one, else it calls init
get_or_init(c, k, i) ==
    /\ Running(c) /\ At(c, "idle")
    /\ tokens[c][k] > 0
    /\ IF cell[k].v # 0
       THEN /\ ret' = [Returned(c, "get_or_init", "none", "Val", cell[k].v) EXCEPT !.arg = i]
            /\ UNCHANGED <<pc, invoked>>
       ELSE /\ pc' = [pc EXCEPT ![c] = [at |-> "goi_init", m |-> "none", k |-> k, r |-> i, calls |-> 0]]
            /\ invoked' = [invoked EXCEPT ![k] = @ \cup {i}]
            /\ UNCHANGED ret
    /\ UNCHANGED <<mutexVars, flag, tokens, cell, irqActive, isrTokens, buildVars>>

\* init has returned; OnceCell stores its value unless the cell was filled meanwhile.
\* Filled by a context of the same core (a nested call): panic!("reentrant init").
\* Filled by the other core: a data race on the OnceCell, whose check may or may
\* not see the other core's write, so the call panics or overwrites the value.
goi_store(c, overwrite) ==
    /\ Running(c) /\ At(c, "goi_init")
    /\ IF cell[pc[c].k].v = 0 \/ (overwrite /\ cell[pc[c].k].core # Sio_core(c))
       THEN /\ cell' = [cell EXCEPT ![pc[c].k] = [v |-> pc[c].r, core |-> Sio_core(c)]]
            /\ ret' = [Returned(c, "get_or_init", "none", "Val", pc[c].r) EXCEPT !.arg = pc[c].r]
            /\ pc' = [pc EXCEPT ![c] = Idle]
       ELSE /\ pc' = [pc EXCEPT ![c] = Panicked]
            /\ UNCHANGED <<cell, ret>>
    /\ UNCHANGED <<mutexVars, flag, tokens, invoked, irqActive, isrTokens, buildVars>>

\* the initializer that c is running calls get_or_init on the same cell with
\* initializer j (the closure may capture the token and the cell): the inner call
\* finds the cell empty, runs j and stores its result, or returns the value it finds
goi_nested(c, j) ==
    /\ Running(c) /\ At(c, "goi_init")
    /\ tokens[c][pc[c].k] > 0
    /\ IF cell[pc[c].k].v = 0
       THEN /\ cell' = [cell EXCEPT ![pc[c].k] = [v |-> j, core |-> Sio_core(c)]]
            /\ invoked' = [invoked EXCEPT ![pc[c].k] = @ \cup {j}]
            /\ ret' = [Returned(c, "get_or_init", "none", "Val", j) EXCEPT !.arg = j]
       ELSE /\ ret' = [Returned(c, "get_or_init", "none", "Val", cell[pc[c].k].v) EXCEPT !.arg = j]
            /\ UNCHANGED <<cell, invoked>>
    /\ UNCHANGED <<mutexVars, flag, tokens, pc, irqActive, isrTokens, buildVars>>

\* get as it would be if it never looked into the cell
get_absent(c, k) ==
    /\ Running(c) /\ At(c, "idle")
    /\ tokens[c][k] > 0
    /\ ret' = Returned(c, "get", "none", "None", 0)
    /\ UNCHANGED <<mutexVars, coreVars, pc, irqActive, isrTokens, buildVars>>

\* LocalCell::get(&self, _ctx: &Core<k>Token): self.data.get()
get(c, k) ==
    /\ Running(c) /\ At(c, "idle")
    /\ tokens[c][k] > 0
    /\ ret' = IF cell[k].v # 0
              THEN Returned(c, "get", "none", "Some", cell[k].v)
              ELSE Returned(c, "get", "none", "None", 0)
    /\ UNCHANGED <<mutexVars, coreVars, pc, irqActive, isrTokens, buildVars>>

(***************************************************************************)
(* Interrupt tokens (interrupt_impl!)                                       *)
(***************************************************************************)
\* number of live tokens of interrupt line i, over all contexts
RECURSIVE SumIsrTokens(_, _)
SumIsrTokens(S, i) ==
    IF S = {} THEN 0
    ELSE LET c == CHOOSE q \in S : TRUE
         IN isrTokens[c][i] + SumIsrTokens(S \ {c}, i)

IsrTokens(i) == SumIsrTokens(Ctx, i)

\* a steal that hands out the token of a line once: refusing while one is live
isr_steal_once(c, i) ==
    /\ Running(c) /\ At(c, "idle")
    /\ IF IsrTokens(i) = 0
       THEN /\ isrTokens' = [isrTokens EXCEPT ![c][i] = @ + 1]
            /\ ret' = Returned(c, "isr_steal", i, "Token", 0)
       ELSE /\ ret' = Returned(c, "isr_steal", i, "None", 0)
            /\ UNCHANGED isrTokens
    /\ UNCHANGED <<mutexVars, coreVars, pc, irqActive, buildVars>>

\* unsafe <line i>::steal(): Self { _marker: PhantomData }
isr_steal(c, i) ==
    /\ Running(c) /\ At(c, "idle")
    /\ IsrTokens(i) < MaxTokens
    /\ isrTokens' = [isrTokens EXCEPT ![c][i] = @ + 1]
    /\ ret' = Returned(c, "isr_steal", i, "Token", 0)
    /\ UNCHANGED <<mutexVars, coreVars, pc, irqActive, buildVars>>

\* an interrupt token goes out of scope (no Drop: nothing else changes)
isr_token_drop(c, i) ==
    /\ Running(c) /\ At(c, "idle")
    /\ isrTokens[c][i] > 0
    /\ isrTokens' = [isrTokens EXCEPT ![c][i] = @ - 1]
    /\ ret' = Returned(c, "isr_token_drop", i, "Unit", 0)
    /\ UNCHANGED <<mutexVars, coreVars, pc, irqActive, buildVars>>

(***************************************************************************)
(* Initial states. At boot the hardware locks are free, no token has been   *)
(* claimed and the cells are empty. Init: the three mutexes are statics     *)
(* that hold 0 and have been locked before. InitOwn: no mutex exists yet.   *)
(***************************************************************************)
InitCommon ==
    /\ lock = [n \in LockIds |-> FALSE]
    /\ guard = [c \in Ctx |-> [m \in Mtx |-> 0]]
    /\ handle = [c \in Ctx |-> [n \in LockIds |-> 0]]
    /\ dropped = [n \in LockIds |-> FALSE]
    /\ pc = [c \in Ctx |-> Idle]
    /\ ret = Returned("core0", "boot", "none", "Unit", 0)
    /\ irqActive = FALSE
    /\ flag = [k \in Cores |-> FALSE]
    /\ tokens = [c \in Ctx |-> [k \in Cores |-> 0]]
    /\ cell = [k \in Cores |-> Empty]
    /\ invoked = [k \in Cores |-> {}]
    /\ assumed = [c \in Ctx |-> [m \in Mtx |-> 0]]
    /\ isrTokens = [c \in Ctx |-> [i \in Irqs |-> 0]]

Init ==
    /\ InitCommon
    /\ data = [m \in Mtx |-> Init_data(0)]
    /\ fresh = [m \in Mtx |-> [st |-> "used", v |-> 0]]
    /\ guarded = TRUE
    /\ debug = TRUE

InitOwn ==
    /\ InitCommon
    /\ data = [m \in Mtx |-> NoData]
    /\ fresh = [m \in Mtx |-> NoData]
    /\ guarded = TRUE
    /\ debug = TRUE

(***************************************************************************)
(* Spec: locking. The contexts claim, wrap and drop locks and guards.       *)
(***************************************************************************)
Next ==
    \/ IrqEnter
    \/ IrqReturn
    \/ \E c \in Ctx, n \in LockIds : Spinlock_claim(c, n)
    \/ \E c \in Ctx, n \in LockIds : Spinlock_drop(c, n)
    \/ \E c \in Ctx, m \in Mtx : lock_with(c, m)
    \/ \E c \in Ctx, m \in Mtx : try_lock(c, m)
    \/ \E c \in Ctx, m \in Mtx : lock_blocking(c, m)
    \/ \E c \in Ctx : lock_blocking_claim(c)
    \/ \E c \in Ctx, m \in Mtx : RefMut_drop(c, m)

Spec == Init /\ [][Next]_vars

(***************************************************************************)
(* SpecOwn: mutexes are made and consumed while others lock them.           *)
(***************************************************************************)
NextOwn ==
    \/ IrqEnter
    \/ IrqReturn
    \/ \E c \in Ctx, m \in Mtx, v \in Val : new(c, m, v)
    \/ \E c \in Ctx, m \in Mtx : into_inner(c, m)
    \/ \E c \in Ctx, m \in Mtx : try_lock(c, m)
    \/ \E c \in Ctx, m \in Mtx, v \in Val : RefMut_deref_mut(c, m, v)
    \/ \E c \in Ctx, m \in Mtx : RefMut_drop(c, m)

SpecOwn == InitOwn /\ [][NextOwn]_vars

(***************************************************************************)
(* SpecCall: the closure-taking calls, next to try_lock and guard drops,    *)
(* made by the two cores with interrupts masked, on mutex A (lock 0) and    *)
(* mutex C (lock 1).                                                        *)
(***************************************************************************)
NextCall ==
    \/ \E c \in Ctx, m \in {"A", "C"} : try_lock(c, m)
    \/ \E c \in Ctx, m \in {"A", "C"} : RefMut_drop(c, m)
    \/ \E c \in Ctx, m \in {"A", "C"} : call_with_lock_blocking(c, m)
    \/ \E c \in Ctx : cwlb_lock(c)
    \/ \E c \in Ctx, w \in Val, r \in Val : cwlb_f(c, w, r)
    \/ \E c \in Ctx : cwlb_ret(c)
    \/ \E c \in Ctx, m \in {"A", "C"} : try_call_with_lock(c, m)
    \/ \E c \in Ctx, w \in Val, r \in Val : tcwl_f(c, w, r)
    \/ \E c \in Ctx : tcwl_ret(c)

SpecCall == Init /\ [][NextCall]_vars

(***************************************************************************)
(* SpecTok: the core tokens, for each build (guarded or unguarded policy,   *)
(* debug assertions on or off).                                             *)
(***************************************************************************)
InitTok ==
    /\ InitCommon
    /\ data = [m \in Mtx |-> Init_data(0)]
    /\ fresh = [m \in Mtx |-> [st |-> "used", v |-> 0]]
    /\ guarded \in BOOLEAN
    /\ debug \in BOOLEAN

NextTok ==
    \/ IrqEnter
    \/ IrqReturn
    \/ \E c \in Ctx, k \in Cores : steal(c, k)
    \/ \E c \in Ctx, k \in Cores : try_claim(c, k)
    \/ \E c \in Ctx, k \in Cores : try_new(c, k)
    \/ \E c \in Ctx, k \in Cores : token_drop(c, k)

SpecTok == InitTok /\ [][NextTok]_vars

(***************************************************************************)
(* SpecCell: a program with one static LocalCell<T, Core0Token>, whose      *)
(* contexts obtain Core0Token by the build's claim operation or by steal.   *)
(***************************************************************************)
NextCell ==
    \/ IrqEnter
    \/ IrqReturn
    \/ \E c \in Ctx : steal(c, 0)
    \/ \E c \in Ctx : try_claim(c, 0)
    \/ \E c \in Ctx : try_new(c, 0)
    \/ \E c \in Ctx, i \in Inits : get_or_init(c, 0, i)
    \/ \E c \in Ctx, overwrite \in BOOLEAN : goi_store(c, overwrite)

SpecCell == InitTok /\ [][NextCell]_vars

(***************************************************************************)
(* SpecUninit: mutexes A (lock 0) and C (lock 1) are made by uninit(); the  *)
(* two cores, with interrupts masked, lock them, write them and promote     *)
(* their guards. The blocking wrapper and the one that takes a bare handle  *)
(* are called on mutex A.                                                   *)
(***************************************************************************)
NextUninit ==
    \/ \E c \in Ctx, m \in {"A", "C"} : uninit(c, m)
    \/ \E c \in Ctx, m \in {"A", "C"} : try_lock(c, m)
    \/ \E c \in Ctx, m \in {"A", "C"}, v \in Val : RefMut_write(c, m, v)
    \/ \E c \in Ctx, m \in {"A", "C"}, u \in Val : RefMut_deref(c, m, u)
    \/ \E c \in Ctx, m \in {"A", "C"} : RefMut_drop(c, m)
    \/ \E c \in Ctx, m \in {"A", "C"} : RefMut_assume_init(c, m)
    \/ \E c \in Ctx, m \in {"A", "C"} : try_assume_init_lock(c, m)
    \/ \E c \in Ctx : tail_assume(c)
    \/ \E c \in Ctx : assume_init_lock_blocking(c, "A")
    \/ \E c \in Ctx : ailb_lock(c)
    \/ \E c \in Ctx : ailb_assume(c)
    \/ \E c \in Ctx : Spinlock_claim(c, 0)
    \/ \E c \in Ctx : assume_init_lock_with(c, "A")
    \/ \E c \in Ctx : ailw_assume(c)
    \/ \E c \in Ctx, m \in {"A", "C"} : RefMut_drop_assumed(c, m)

SpecUninit == InitOwn /\ [][NextUninit]_vars

(***************************************************************************)
(* SpecOnce: the guarded build of a program with one LocalCell per core,    *)
(* whose contexts obtain their tokens from try_claim() only.                *)
(***************************************************************************)
InitOnce ==
    /\ InitCommon
    /\ data = [m \in Mtx |-> Init_data(0)]
    /\ fresh = [m \in Mtx |-> [st |-> "used", v |-> 0]]
    /\ guarded = TRUE
    /\ debug \in BOOLEAN

NextOnce ==
    \/ IrqEnter
    \/ IrqReturn
    \/ \E c \in Ctx, k \in Cores : try_claim(c, k)
    \/ \E c \in Ctx, k \in Cores, i \in Inits : get_or_init(c, k, i)
    \/ \E c \in Ctx, j \in Inits : goi_nested(c, j)
    \/ \E c \in Ctx, overwrite \in BOOLEAN : goi_store(c, overwrite)
    \/ \E c \in Ctx, k \in Cores : get(c, k)

SpecOnce == InitOnce /\ [][NextOnce]_vars

(***************************************************************************)
(* SpecIsr: the interrupt tokens, stolen by any context, next to claims of   *)
(* Core0Token and of mutex A that change the flag and the register.         *)
(***************************************************************************)
NextIsr ==
    \/ IrqEnter
    \/ IrqReturn
    \/ \E c \in Ctx, i \in Irqs : isr_steal(c, i)
    \/ \E c \in Ctx, i \in Irqs : isr_token_drop(c, i)
    \/ \E c \in Ctx : try_claim(c, 0)
    \/ \E c \in Ctx : try_lock(c, "A")
    \/ \E c \in Ctx : RefMut_drop(c, "A")

SpecIsr == Init /\ [][NextIsr]_vars

(***************************************************************************)
(* SpecLive: the two cores, with interrupts masked, lock and unlock the     *)
(* mutexes. Spinlock::claim() is a loop that keeps reading the register: a  *)
(* spinning context whose claim stays possible makes it (weak fairness).    *)
(* Nothing orders the contexts that want the lock.                          *)
(***************************************************************************)
NextLive ==
    \/ \E c \in Ctx, m \in Mtx : try_lock(c, m)
    \/ \E c \in Ctx, m \in Mtx : lock_blocking(c, m)
    \/ \E c \in Ctx : lock_blocking_claim(c)
    \/ \E c \in Ctx, m \in Mtx : RefMut_drop(c, m)

Fairness == \A c \in Ctx : WF_vars(lock_blocking_claim(c))

SpecLive == Init /\ [][NextLive]_vars /\ Fairness

(***************************************************************************)
(* Properties of the mutex                                                  *)
(***************************************************************************)
\* C1: mutual exclusion. In every reachable state at most one guard (RefMut) is
\* live for each lock id, counted over all contexts and all mutexes of that id;
\* no bare handle of the lock exists beside it, and the register shows it claimed.
C1_MutualExclusion ==
    \A n \in LockIds :
        /\ Guards(n) <= 1
        /\ Guards(n) + Handles(n) <= 1
        /\ Guards(n) = 1 => lock[n]

\* a guard of lock 0 is live on one mutex while another context spins in
\* lock_blocking on the other mutex of lock 0 and an interrupt is being served
C1_Witness ==
    \E c1, c2 \in Ctx :
        /\ c1 # c2
        /\ guard[c1]["A"] = 1
        /\ At(c2, "lock_blocking") /\ pc[c2].m = "B"
        /\ irqActive

\* C2: try_lock() on a held lock returns None and changes nothing: the register,
\* the guards and handles (who holds the lock) and the payload stay as they were.
C2_TryLockHeldIsNone ==
    [][\A c \in Ctx, m \in Mtx :
          (try_lock(c, m) /\ lock[N(m)]) =>
              /\ ret' = Returned(c, "try_lock", m, "None", 0)
              /\ UNCHANGED <<lock, guard, handle, data, fresh, dropped, pc>>]_vars

\* a context that holds the guard of a mutex has just been refused by try_lock()
\* on that same mutex
C2_Witness ==
    /\ ret.op = "try_lock" /\ ret.tag = "None"
    /\ guard[ret.ctx][ret.m] = 1
    /\ lock[N(ret.m)]

\* C3: a guard going away frees lock N, and only lock N, and takes exactly one
\* guard out of existence; try_lock() on a free lock returns a guard and claims it.
C3_DropReleasesOnce ==
    [][\A c \in Ctx, m \in Mtx :
          /\ RefMut_drop(c, m) =>
                /\ lock[N(m)] /\ ~lock'[N(m)]
                /\ \A n \in LockIds \ {N(m)} : lock'[n] = lock[n]
                /\ guard' = [guard EXCEPT ![c][m] = @ - 1]
                /\ \A c2 \in Ctx, m2 \in Mtx : N(m2) = N(m) => guard'[c2][m2] = 0
                /\ \A c2 \in Ctx : handle'[c2][N(m)] = 0
          /\ (try_lock(c, m) /\ ~lock[N(m)]) =>
                /\ ret' = Returned(c, "try_lock", m, "Some", 0)
                /\ guard'[c][m] = guard[c][m] + 1
                /\ lock'[N(m)]]_vars

\* try_lock() has just returned a guard for a lock that a guard's drop had freed
C3_Witness ==
    /\ ret.op = "try_lock" /\ ret.tag = "Some"
    /\ dropped[N(ret.m)]
    /\ guard[ret.ctx][ret.m] = 1

C10_CallWithLock ==
    [][\A c \in Ctx :
          /\ \A w, r \in Val :
                (cwlb_f(c, w, r) \/ tcwl_f(c, w, r)) =>
                    /\ pc[c].calls = 0
                    /\ lock[N(pc[c].m)] /\ guard[c][pc[c].m] = 1 /\ Guards(N(pc[c].m)) = 1
                    /\ data'[pc[c].m] = Init_data(w)
                    /\ pc'[c].r = r
          /\ (cwlb_ret(c) \/ tcwl_ret(c)) =>
                /\ pc[c].calls = 1
                /\ \A n \in LockIds :
                      n = N(pc[c].m) =>
                          /\ lock[n] /\ ~lock'[n]
                          /\ \A c2 \in Ctx, m \in Mtx : N(m) = n => guard'[c2][m] = 0
                /\ \A m \in Mtx \ {pc[c].m} : guard'[c][m] = guard[c][m]
                /\ handle' = handle /\ data' = data
                /\ ret'.v = pc[c].r
                /\ ret'.tag = IF cwlb_ret(c) THEN "Val" ELSE "Some"
          /\ \A m \in Mtx :
                (try_call_with_lock(c, m) /\ lock[N(m)]) =>
                    /\ ret' = Returned(c, "try_call_with_lock", m, "None", 0)
                    /\ UNCHANGED <<lock, guard, handle, data, pc>>]_vars

\* call_with_lock_blocking has just returned 1, the payload holds the 1 that f
\* wrote, lock N is free again and the caller holds no guard
C10_Witness ==
    /\ ret.op = "call_with_lock_blocking" /\ ret.tag = "Val" /\ ret.v = 1
    /\ data[ret.m] = Init_data(1)
    /\ ~lock[N(ret.m)]
    /\ \A m \in Mtx : guard[ret.ctx][m] = 0

(***************************************************************************)
(* Properties of the core tokens and of LocalCell                           *)
(***************************************************************************)
\* C4: guarded policy. A try_claim() of Core<k>Token that finds the flag clear (the
\* first one) returns the token; every later one returns None and changes nothing.
C4_FirstClaimWins ==
    [][\A c \in Ctx, k \in Cores :
          try_claim(c, k) =>
              IF ~flag[k]
              THEN /\ ret' = Returned(c, "try_claim", "none", "Some", k)
                   /\ tokens'[c][k] = tokens[c][k] + 1
              ELSE /\ ret' = Returned(c, "try_claim", "none", "None", k)
                   /\ tokens' = tokens /\ flag' = flag]_vars

\* C5: a claim operation (try_claim, try_new) never panics: it returns Some(token)
\* or None to its caller, who goes on running.
C5_ClaimNeverPanics ==
    [][\A c \in Ctx, k \in Cores :
          (try_claim(c, k) \/ try_new(c, k)) =>
              /\ pc'[c].at # "panicked"
              /\ ret'.ctx = c /\ ret'.tag \in {"Some", "None"}]_vars

\* C6: a claim operation hands a Core<k>Token only to a context that runs on core k.
C6_TokenProvesCore ==
    [][\A c \in Ctx, k \in Cores :
          ((try_claim(c, k) \/ try_new(c, k)) /\ tokens'[c][k] > tokens[c][k]) =>
              Sio_core(c) = k]_vars

\* C7: unguarded policy. try_new() of Core<k>Token returns the token iff the caller
\* runs on core k, however many tokens of core k are live; it returns None
\* otherwise; it never panics and leaves the flags alone.
C7_TryNewIffCore ==
    [][\A c \in Ctx, k \in Cores :
          try_new(c, k) =>
              /\ IF Sio_core(c) = k
                 THEN /\ ret' = Returned(c, "try_new", "none", "Some", k)
                      /\ tokens' = [tokens EXCEPT ![c][k] = @ + 1]
                 ELSE /\ ret' = Returned(c, "try_new", "none", "None", k)
                      /\ tokens' = tokens
              /\ pc' = pc /\ flag' = flag]_vars

\* try_new() has just succeeded for a context that already owned a token of its core
C7_Witness ==
    /\ ~guarded
    /\ ret.op = "try_new" /\ ret.tag = "Some"
    /\ tokens[ret.ctx][ret.v] = 2
    /\ Sio_core(ret.ctx) = ret.v

\* C8: get_or_init on a cell that holds a value returns that value and does not
\* call its initializer; the call that finds the cell empty and fills it stores
\* and returns its own initializer's result. So the second of two calls returns
\* what the first returned.
C8_GetOrInitOnce ==
    [][\A c \in Ctx, k \in Cores :
          /\ \A i \in Inits :
                (get_or_init(c, k, i) /\ cell[k].v # 0) =>
                    /\ ret' = [Returned(c, "get_or_init", "none", "Val", cell[k].v)
                                  EXCEPT !.arg = i]
                    /\ UNCHANGED <<cell, invoked, pc>>
          /\ \A b \in BOOLEAN :
                (goi_store(c, b) /\ pc[c].k = k /\ cell[k].v = 0) =>
                    /\ cell'[k].v = pc[c].r
                    /\ ret'.v = pc[c].r /\ ret'.ctx = c
                    /\ invoked' = invoked]_vars

\* get_or_init with initializer 2 has just returned 1, the result of initializer 1,
\* which is the only initializer that was ever called
C8_Witness ==
    /\ ret.op = "get_or_init" /\ ret.arg = 2 /\ ret.v = 1
    /\ cell[0].v = 1
    /\ invoked[0] = {1}

(***************************************************************************)
(* Properties of the uninitialized mutex and of promoted guards             *)
(***************************************************************************)
\* C11: a value written through a guard is what the next holder reads. A write of v
\* through a guard leaves v in the payload; the payload changes in no other way
\* (not by a guard going away, not by try_assume_init_lock, not by a promotion);
\* try_assume_init_lock() on a free lock returns a promoted guard, and a read
\* through a promoted guard returns the value the payload holds.
C11_WrittenIsRead ==
    [][\A m \in Mtx :
          /\ data'[m] # data[m] =>
                \E c \in Ctx :
                    \/ uninit(c, m)
                    \/ (guard[c][m] > 0 \/ assumed[c][m] > 0)
                          /\ \E v \in Val : RefMut_write(c, m, v) /\ data'[m] = Init_data(v)
          /\ \A c \in Ctx :
                /\ \A v \in Val : RefMut_write(c, m, v) => data'[m] = Init_data(v)
                /\ (try_assume_init_lock(c, m) /\ ~lock[N(m)]) =>
                      /\ pc'[c] = InCall("tail_assume", m)
                      /\ guard'[c][m] = guard[c][m] + 1
                /\ (tail_assume(c) /\ pc[c].m = m) =>
                      /\ ret' = Returned(c, "try_assume_init_lock", m, "Some", 0)
                      /\ assumed'[c][m] = assumed[c][m] + 1
                /\ \A u \in Val :
                      (RefMut_deref(c, m, u) /\ data[m].st = "init") => ret'.v = data[m].v]_vars

\* a context has read 1 through the promoted guard of a mutex made by uninit(): the
\* 1 that an earlier guard, dropped since, wrote into the storage
C11_Witness ==
    /\ ret.op = "deref" /\ ret.v = 1
    /\ assumed[ret.ctx][ret.m] = 1
    /\ data[ret.m] = Init_data(1)
    /\ dropped[N(ret.m)]

\* C14: a promotion (RefMut::assume_init, alone or as the last statement of
\* try_assume_init_lock, assume_init_lock_blocking, assume_init_lock_with) turns one
\* guard over MaybeUninit<T> into one promoted guard and changes nothing else:
\* lock N is claimed before and after, the register, the handles and the payload
\* stay as they were. While a promoted guard is live, or a wrapper is between its
\* claim and its promotion, lock N is claimed. The drop of the promoted guard
\* frees lock N, and only lock N, and leaves no guard or handle of N behind.
C14_PromotionKeepsLock ==
    [][/\ \A c \in Ctx, m \in Mtx :
             /\ (\/ RefMut_assume_init(c, m)
                 \/ (tail_assume(c) \/ ailb_assume(c) \/ ailw_assume(c)) /\ pc[c].m = m) =>
                   /\ lock[N(m)] /\ lock' = lock
                   /\ data' = data /\ handle' = handle
                   /\ guard' = [guard EXCEPT ![c][m] = @ - 1]
                   /\ assumed' = [assumed EXCEPT ![c][m] = @ + 1]
             /\ RefMut_drop_assumed(c, m) =>
                   /\ lock[N(m)] /\ ~lock'[N(m)]
                   /\ \A n \in LockIds \ {N(m)} : lock'[n] = lock[n]
                   /\ data' = data
                   /\ assumed' = [assumed EXCEPT ![c][m] = @ - 1]
                   /\ \A c2 \in Ctx, m2 \in Mtx :
                         N(m2) = N(m) => guard'[c2][m2] = 0 /\ assumed'[c2][m2] = 0
                   /\ \A c2 \in Ctx : handle'[c2][N(m)] = 0
             /\ assumed'[c][m] > 0 => lock'[N(m)]
       /\ \A c \in Ctx :
             pc'[c].at \in {"tail_assume", "ailb_assume", "ailw_assume"} =>
                 \A n \in LockIds : n = N(pc'[c].m) => lock'[n]]_vars

\* try_assume_init_lock() has just returned a promoted guard, the caller's only
\* guard, with lock N claimed, while the other core spins for lock N inside
\* assume_init_lock_blocking()
C14_Witness ==
    /\ ret.op = "try_assume_init_lock" /\ ret.tag = "Some"
    /\ assumed[ret.ctx][ret.m] = 1 /\ guard[ret.ctx][ret.m] = 0
    /\ lock[N(ret.m)]
    /\ \E c2 \in Ctx : At(c2, "ailb_lock") /\ pc[c2].m = ret.m

(***************************************************************************)
(* Properties of steal()                                                    *)
(***************************************************************************)
\* C12: steal() of Core<k>Token called on core k returns the token to its caller;
\* called on the other core with debug assertions enabled it panics: the caller
\* stops and no token is made.
C12_StealChecksCoreInDebug ==
    [][\A c \in Ctx, k \in Cores :
          steal(c, k) =>
              /\ Sio_core(c) = k =>
                    /\ ret' = Returned(c, "steal", "none", "Some", k)
                    /\ tokens' = [tokens EXCEPT ![c][k] = @ + 1]
                    /\ pc' = pc
              /\ (Sio_core(c) # k /\ debug) =>
                    /\ pc'[c].at = "panicked"
                    /\ tokens' = tokens /\ ret' = ret]_vars

\* unguarded debug build: thread mode of core 0 has stolen Core0Token and then
\* panicked in Core1Token::steal()
C12_Witness ==
    /\ ~guarded /\ debug
    /\ pc["core0"].at = "panicked"
    /\ tokens["core0"][0] = 1 /\ tokens["core0"][1] = 0
    /\ ret = Returned("core0", "steal", "none", "Some", 0)

(***************************************************************************)
(* Properties of LocalCell in the guarded build                             *)
(***************************************************************************)
\* C13 as stated: with tokens from try_claim() only, at most one initializer is ever
\* run for a cell, a stored value never changes, and get returns None while the
\* cell is empty and the stored value afterwards.
C13_WriteOnce ==
    [][\A k \in Cores :
          /\ Cardinality(invoked'[k]) <= 1
          /\ cell[k].v # 0 => cell'[k] = cell[k]
          /\ \A c \in Ctx :
                get(c, k) =>
                    ret' = IF cell[k].v # 0
                           THEN Returned(c, "get", "none", "Some", cell[k].v)
                           ELSE Returned(c, "get", "none", "None", 0)]_vars

\* C13, amended: with tokens from try_claim() only, a value is stored into a cell
\* at most once and never changes; an initializer is run only by a call that
\* finds the cell empty; a second initializer is run only from inside the first
\* (a nested get_or_init on the same cell), and then the outer call does not
\* return: it is still running its initializer or has panicked; get returns None
\* while the cell is empty and the stored value afterwards.
C13_StoredOnce ==
    [][\A k \in Cores :
          /\ cell[k].v # 0 => cell'[k] = cell[k]
          /\ invoked'[k] # invoked[k] => cell[k].v = 0
          /\ Cardinality(invoked'[k]) > 1 =>
                \E c \in Ctx :
                    /\ tokens'[c][k] > 0
                    /\ \/ pc'[c].at = "goi_init" /\ pc'[c].k = k
                       \/ pc'[c].at = "panicked"
          /\ \A c \in Ctx :
                get(c, k) =>
                    ret' = IF cell[k].v # 0
                           THEN Returned(c, "get", "none", "Some", cell[k].v)
                           ELSE Returned(c, "get", "none", "None", 0)]_vars

\* release build: initializer 1 of the Core0Token cell has called get_or_init with
\* initializer 2, which stored 2; the outer call has panicked; both initializers ran
C13_Witness ==
    /\ ~debug
    /\ invoked[0] = {1, 2}
    /\ cell[0].v = 2
    /\ \E c \in Ctx : tokens[c][0] = 1 /\ pc[c].at = "panicked"

(***************************************************************************)
(* Properties of lock_blocking()                                            *)
(***************************************************************************)
\* context c spins in lock_blocking() for lock n while it holds a guard or a bare
\* handle of lock n itself
SelfDeadlocked(c, n) ==
    /\ At(c, "lock_blocking") /\ N(pc[c].m) = n
    /\ \/ \E m \in Mtx : N(m) = n /\ guard[c][m] > 0
       \/ handle[c][n] > 0

\* C15: self-deadlock. Once a context spins in lock_blocking() for a lock it holds
\* itself, it spins there in every later state: the call does not return, the
\* context does not panic and nothing is reported to it, what it holds stays as it
\* is, and lock N stays claimed.
C15_SelfDeadlock ==
    [][\A c \in Ctx, n \in LockIds :
          SelfDeadlocked(c, n) =>
              /\ SelfDeadlocked(c, n)'
              /\ pc'[c] = pc[c]
              /\ lock'[n]
              /\ guard'[c] = guard[c] /\ handle'[c] = handle[c]
              /\ ret' # ret => ret'.ctx # c]_vars

\* core 1 holds the guard of mutex A and spins in lock_blocking() on mutex A
C15_Witness ==
    /\ guard["core1"]["A"] = 1
    /\ At("core1", "lock_blocking") /\ pc["core1"].m = "A"
    /\ lock[0]

\* C17: exclusion goes by lock id. A and B are two mutexes of lock 0: while a guard
\* of one is live, try_lock() on the other returns None and changes nothing, and a
\* lock_blocking() on the other by the guard's holder stays where it is. C is a
\* mutex of lock 1: try_lock() on it succeeds whenever lock 1 is free, whatever is
\* held of lock 0, and try_lock() on A or B succeeds whenever lock 0 is free,
\* whatever is held of lock 1.
C17_KeyedByLockId ==
    [][\A c \in Ctx :
          /\ \A m, o \in {"A", "B"} :
                m # o =>
                    /\ (try_lock(c, m) /\ \E c2 \in Ctx : guard[c2][o] > 0) =>
                          /\ ret' = Returned(c, "try_lock", m, "None", 0)
                          /\ UNCHANGED <<lock, guard, handle, data>>
                    /\ (At(c, "lock_blocking") /\ pc[c].m = m /\ guard[c][o] > 0) =>
                          /\ pc'[c] = pc[c]
                          /\ guard'[c] = guard[c]
                          /\ lock'[0]
                    /\ (try_lock(c, m) /\ ~lock[0]) =>
                          /\ ret' = Returned(c, "try_lock", m, "Some", 0)
                          /\ lock' = [lock EXCEPT ![0] = TRUE]
          /\ (try_lock(c, "C") /\ ~lock[1]) =>
                /\ ret' = Returned(c, "try_lock", "C", "Some", 0)
                /\ lock' = [lock EXCEPT ![1] = TRUE]]_vars

\* core 1 holds the guards of A and of C and spins in lock_blocking() on B, and
\* core 0 has just been refused by try_lock() on B
C17_Witness ==
    /\ guard["core1"]["A"] = 1 /\ guard["core1"]["C"] = 1
    /\ At("core1", "lock_blocking") /\ pc["core1"].m = "B"
    /\ ret = Returned("core0", "try_lock", "B", "None", 0)

\* C18: guarded policy. steal() leaves the flags as they are. try_claim() makes a
\* token only when it finds the flag clear, and sets it, and a flag once set stays
\* set: so try_claim() alone makes at most one token per core. try_claim() looks
\* at the flag and not at the live tokens: it returns None exactly when the flag
\* is set, and called on core k it returns the token exactly when the flag is
\* clear, also when stolen tokens of core k are live.
C18_StealLeavesFlag ==
    [][guarded =>
          \A c \in Ctx, k \in Cores :
              /\ steal(c, k) => flag' = flag
              /\ flag[k] => flag'[k]
              /\ try_claim(c, k) =>
                    /\ tokens' # tokens => ~flag[k] /\ flag'[k]
                    /\ ret' = Returned(c, "try_claim", "none", "None", k) <=> flag[k]
                    /\ Sio_core(c) = k =>
                          (/\ ret' = Returned(c, "try_claim", "none", "Some", k)
                           /\ tokens' = [tokens EXCEPT ![c][k] = @ + 1]) <=> ~flag[k]]_vars

\* guarded build: core 0 stole Core0Token, which left the flag clear, and its
\* try_claim() has then returned a second live token
C18_Witness ==
    /\ guarded
    /\ ret = Returned("core0", "try_claim", "none", "Some", 0)
    /\ tokens["core0"][0] = 2
    /\ flag[0]

\* C19: guarded policy. The flag of core k becomes set only by a try_claim() that
\* returns the token of core k to its caller: no claim leaves the flag set without
\* having produced a token. (The flag starts clear and is never cleared, so it
\* is then set iff some try_claim() has returned the token.)
C19_FlagIffTokenReturned ==
    [][guarded =>
          \A k \in Cores :
              /\ flag[k] => flag'[k]
              /\ (~flag[k] /\ flag'[k]) =>
                    \E c \in Ctx :
                        /\ try_claim(c, k)
                        /\ ret' = Returned(c, "try_claim", "none", "Some", k)
                        /\ tokens' = [tokens EXCEPT ![c][k] = @ + 1]
              /\ \A c \in Ctx :
                    (try_claim(c, k) /\ ret' = Returned(c, "try_claim", "none", "Some", k)) =>
                        flag'[k]]_vars

\* context c spins in lock_blocking() for lock n
Waiting(c, n) == At(c, "lock_blocking") /\ N(pc[c].m) = n

\* C20 as stated: if lock N is freed again and again (every guard of N is dropped
\* in the end), every context that spins in lock_blocking() for N gets its guard.
C20_NoStarvation ==
    \A n \in LockIds :
        []<>(~lock[n]) => \A c \in Ctx : Waiting(c, n) ~> ~Waiting(c, n)

\* C20, amended: no context spins for ever on a lock that stays free. Whenever a
\* context spins in lock_blocking() for N and N is free, then N gets claimed, by
\* that context or by another one.
C20_FreeLockIsTaken ==
    \A c \in Ctx, n \in LockIds :
        (Waiting(c, n) /\ ~lock[n]) ~> (~Waiting(c, n) \/ lock[n])

\* core 1 spins in lock_blocking() on mutex A while core 0 has taken lock 0 again
\* by try_lock() after a guard of lock 0 was dropped
C20_Witness ==
    /\ At("core1", "lock_blocking") /\ pc["core1"].m = "A"
    /\ dropped[0]
    /\ ret = Returned("core0", "try_lock", "A", "Some", 0)
    /\ guard["core0"]["A"] = 1

(***************************************************************************)
(* Properties of the interrupt tokens                                       *)
(***************************************************************************)
\* C16: steal() of an interrupt token always returns a token. Every context that is
\* running can call it, whatever the flags, the register and the live tokens are
\* (up to the bound on live tokens); it makes one more token of the line for the
\* caller beside those that are live, and changes nothing else.
C16_IsrStealUnconditional ==
    [][\A c \in Ctx, i \in Irqs :
          /\ (Running(c) /\ At(c, "idle") /\ IsrTokens(i) < MaxTokens) =>
                ENABLED isr_steal(c, i)
          /\ isr_steal(c, i) =>
                /\ ret' = Returned(c, "isr_steal", i, "Token", 0)
                /\ isrTokens' = [isrTokens EXCEPT ![c][i] = @ + 1]
                /\ UNCHANGED <<mutexVars, coreVars, pc, irqActive, buildVars>>]_vars

\* the interrupt handler has just stolen the token of TIMER_IRQ_0 while thread mode
\* of core 1 owns one too, IS_CORE0_TAKEN is set and lock 0 is claimed
C16_Witness ==
    /\ ret = Returned("irq0", "isr_steal", "TIMER_IRQ_0", "Token", 0)
    /\ isrTokens["irq0"]["TIMER_IRQ_0"] = 1
    /\ isrTokens["core1"]["TIMER_IRQ_0"] = 1
    /\ flag[0] /\ lock[0]

====
